---- MODULE Spec2Model ----
(***************************************************************************)
(* A model of huixiangdou/service/feature_store.py (class FeatureStore):   *)
(* the query path (is_reject, query and its context-assembly loop), the    *)
(* markdown chunker split_md, and initialize (index rebuild, threshold     *)
(* calibration and the rewrite of the configuration file).                 *)
(*                                                                         *)
(* Python strings are sequences of one-character strings.  Similarity      *)
(* scores, which are floats in the program, are integers on a scaled axis. *)
(***************************************************************************)
EXTENDS Integers, Sequences, FiniteSets, TLC

VARIABLES
    \* ---- FeatureStore.query: arguments and environment
    question,            \* [some, str]: the question argument (some = FALSE is None)
    context_max_length,  \* the context_max_length argument
    file_texts,          \* source path -> text of that file on disk
    reranked,            \* what compression_retriever.get_relevant_documents yields
    reject_scores,       \* relevance score of every reject-index entry for the question
    reject_throttle,     \* self.reject_throttle
    \* ---- FeatureStore.query: locals and outcome
    qpc,                 \* "ready" before the call, "done" after it
    outcome,             \* "none" | "null" | "pair" | "AssertionError" | "IndexError"
    ret,                 \* the returned 2-tuple of optional strings
    context,             \* the local `context` when the assembly loop ends
    loc,                 \* locals of the iteration at which the loop stopped
    retriever_calls,     \* calls of compression_retriever.get_relevant_documents
    rejecter_calls,      \* calls of rejecter.similarity_search_with_relevance_scores
    \* ---- FeatureStore.is_reject called on its own
    k_arg,               \* the argument k
    disable_arg,    \* the argument disable_throttle
    gpc,                 \* "ready" before the call, "done" after it
    reject,              \* the returned flag
    reject_docs,         \* the returned list of <<entry, score>>
    \* ---- FeatureStore.split_md
    md_docs,             \* what head_splitter.split_text(text) yields, each section
                         \* with what md_splitter yields for its page_content
    spc,                 \* "ready" before the call, "done" after it
    final,               \* the returned list of chunks
    overflow_logged,     \* number of "split length" debug lines written
    \* ---- the configuration files, the work directory and the store instance
    config_files,        \* path -> content of that configuration file
    config0,             \* config_files when the store was constructed
    self_config_path,    \* self.config_path
    preprocess_dir,      \* work_dir/preprocess: "absent" | "empty" | "old" | "new"
    db_response,         \* work_dir/db_response: "absent" | "empty" | "old" | "new"
    db_reject,           \* work_dir/db_reject:   "absent" | "empty" | "old" | "new"
    rejecter,            \* self.rejecter: "none" or the index loaded ("old" | "new")
    retriever,           \* self.retriever: "none" or the index loaded
    \* ---- FeatureStore.initialize: arguments, environment and outcome
    config_path_arg,     \* the argument config_path
    good_scores,         \* per good question, its top-1 score in the rebuilt reject index
    bad_scores,          \* per bad question, its top-1 score in the rebuilt reject index
    fault,               \* the step of the rebuild that fails, or "none"
    ipc,                 \* "constructed" | "initialized" | "restarted"
    init_outcome,        \* "none" | "ok" | the exception raised
    optimal_threshold,   \* optimal_threshold, -1 while not computed
    load_outcome         \* outcome of load_feature called on its own

query_vars == <<question, context_max_length, file_texts, reranked, qpc, outcome,
                ret, context, loc, retriever_calls>>
gate_vars == <<k_arg, disable_arg, gpc, reject, reject_docs>>
split_vars == <<md_docs, spc, final, overflow_logged>>
disk_vars == <<preprocess_dir, db_response, db_reject>>
store_vars == <<config_files, config0, self_config_path, disk_vars, rejecter,
                retriever, config_path_arg, good_scores, bad_scores, fault, ipc,
                init_outcome, optimal_threshold, load_outcome>>

vars == <<query_vars, gate_vars, split_vars, store_vars, reject_scores,
          reject_throttle, rejecter_calls>>

(***************************************************************************)
(* Bounds of the model.                                                    *)
(***************************************************************************)
MaxFileLen == 3
MaxCtx == 4
MaxScore == 3
MaxEntries == 3
MaxHeaderLen == 2
MaxPieces == 2
MaxQuestions == 2

(***************************************************************************)
(* Python values.                                                          *)
(***************************************************************************)
Max(a, b) == IF a >= b THEN a ELSE b
Min(a, b) == IF a <= b THEN a ELSE b

NL == "\n"
Alphabet == {"a", "b"}

RECURSIVE StrsOfLen(_)
StrsOfLen(n) ==
    IF n = 0 THEN {<<>>}
    ELSE {Append(s, c) : s \in StrsOfLen(n - 1), c \in Alphabet}

StrsUpTo(n) == UNION {StrsOfLen(k) : k \in 0..n}

None == [some |-> FALSE, str |-> <<>>]
Some(s) == [some |-> TRUE, str |-> s]

\* s[lo:hi] for integers lo, hi: a negative index counts from the end, and
\* both ends are clipped to the string.
PyIndex(i, n) == IF i < 0 THEN Max(0, n + i) ELSE Min(i, n)
PySlice(s, lo, hi) ==
    LET n == Len(s)
        l == PyIndex(lo, n)
        h == PyIndex(hi, n)
    IN  IF l < h THEN SubSeq(s, l + 1, h) ELSE <<>>

\* s.find(sub): the lowest 0-based offset at which sub occurs in s, or -1.
OccursAt(s, sub, i) ==
    /\ i >= 0
    /\ i + Len(sub) <= Len(s)
    /\ SubSeq(s, i + 1, i + Len(sub)) = sub
PyFind(s, sub) ==
    LET hits == {i \in 0..Len(s) : OccursAt(s, sub, i)}
    IN  IF hits = {} THEN -1
        ELSE CHOOSE i \in hits : \A j \in hits : i <= j

\* sub in s
PyIn(sub, s) == PyFind(s, sub) # -1

\* '\n'.join(strs)
RECURSIVE JoinNL(_)
JoinNL(strs) ==
    IF Len(strs) = 0 THEN <<>>
    ELSE IF Len(strs) = 1 THEN strs[1]
    ELSE strs[1] \o <<NL>> \o JoinNL(Tail(strs))

(***************************************************************************)
(* The reject index (a FAISS vector store behind                           *)
(* similarity_search_with_relevance_scores).  `scores` gives, per index    *)
(* entry, the relevance score of that entry for the question at hand; a    *)
(* search yields the k best entries, best first, as <<entry, score>>, and  *)
(* with a score_threshold keeps those scoring at least the threshold.      *)
(***************************************************************************)
RECURSIVE BestFirst(_, _)
BestFirst(scores, left) ==
    IF left = {} THEN <<>>
    ELSE LET best == CHOOSE i \in left :
                         \A j \in left :
                             \/ scores[i] > scores[j]
                             \/ (scores[i] = scores[j] /\ i <= j)
         IN  <<[doc |-> best, score |-> scores[best]]>>
                 \o BestFirst(scores, left \ {best})

TopK(scores, k) == SubSeq(BestFirst(scores, DOMAIN scores), 1, Min(k, Len(scores)))

AtLeast(score, threshold) == score >= threshold

similarity_search_with_relevance_scores(scores, k, filtered, score_threshold) ==
    IF filtered
    THEN SelectSeq(TopK(scores, k), LAMBDA d : AtLeast(d.score, score_threshold))
    ELSE TopK(scores, k)

(***************************************************************************)
(* FeatureStore.is_reject                                                  *)
(***************************************************************************)
DefaultK == 20

NoDocsOffByOne(docs) == Len(docs) <= 1

NoDocs(docs) == Len(docs) < 1

is_reject(scores, throttle, k, disable_throttle) ==
    LET docs == IF disable_throttle
                THEN similarity_search_with_relevance_scores(scores, 1, FALSE, 0)
                ELSE similarity_search_with_relevance_scores(scores, k, TRUE, throttle)
    IN  IF NoDocs(docs)
        THEN [reject |-> TRUE, docs |-> docs]
        ELSE [reject |-> FALSE, docs |-> docs]

(***************************************************************************)
(* FeatureStore.query                                                      *)
(***************************************************************************)
EmptyQuestionNoneOnly(q) == ~q.some

\* question is None or len(question) < 1
EmptyQuestion(q) == (~q.some) \/ Len(q.str) < 1

FirstFileDefaulted(files) == FALSE

\* files[0] raises IndexError on an empty list
FirstFileMissing(files) == Len(files) = 0

\* chunks.append(doc.page_content) for every doc
RECURSIVE ChunksOf(_)
ChunksOf(docs) ==
    IF Len(docs) = 0 THEN <<>>
    ELSE <<docs[1].page_content>> \o ChunksOf(Tail(docs))

\* files: the source paths of docs, each once, in first-seen order
RECURSIVE FilesOf(_, _)
FilesOf(docs, files) ==
    IF Len(docs) = 0 THEN files
    ELSE FilesOf(Tail(docs),
                 IF \E j \in DOMAIN files : files[j] = docs[1].source
                 THEN files
                 ELSE Append(files, docs[1].source))

StartIndexAtChunk(chunk_index, add_len, chunk_len) == chunk_index

StartIndexNoChunkLen(chunk_index, add_len, chunk_len) ==
    Max(0, chunk_index - add_len)

StartIndex(chunk_index, add_len, chunk_len) ==
    Max(0, chunk_index - (add_len - chunk_len))

NoLoc == [branch |-> "exhausted", chunk |-> <<>>, file_text |-> <<>>,
          add_len |-> 0, chunk_index |-> -1, start_index |-> -1,
          before |-> <<>>, added |-> <<>>]

\* The loop "for idx, doc in enumerate(docs)" from iteration i on, with the
\* context built so far: the context when the loop ends and the locals of
\* the iteration that left it.
RECURSIVE Assemble(_, _, _, _, _)
Assemble(docs, i, ctx, fs, max_length) ==
    IF i > Len(docs) THEN [context |-> ctx, loc |-> [NoLoc EXCEPT !.before = ctx]]
    ELSE
      LET chunk == docs[i].page_content
          file_text == fs[docs[i].source]
      IN
      IF Len(file_text) + Len(ctx) > max_length
      THEN
        LET add_len == max_length - Len(ctx)
            here == [NoLoc EXCEPT !.chunk = chunk, !.file_text = file_text,
                                  !.add_len = add_len, !.before = ctx]
        IN
        IF add_len <= 0
        THEN [context |-> ctx, loc |-> [here EXCEPT !.branch = "nobudget"]]
        ELSE
          LET chunk_index == PyFind(file_text, chunk) IN
          IF chunk_index = -1
          THEN
            LET added == chunk \o <<NL>>
                           \o PySlice(file_text, 0, add_len - Len(chunk) - 1)
            IN  [context |-> ctx \o added,
                 loc |-> [here EXCEPT !.branch = "notfound", !.added = added]]
          ELSE
            LET start_index == StartIndex(chunk_index, add_len, Len(chunk))
                added == PySlice(file_text, start_index, start_index + add_len)
            IN  [context |-> ctx \o added,
                 loc |-> [here EXCEPT !.branch = "found",
                                      !.chunk_index = chunk_index,
                                      !.start_index = start_index,
                                      !.added = added]]
      ELSE Assemble(docs, i + 1, ctx \o <<NL>> \o file_text, fs, max_length)

NullReturn(rc) ==
    [outcome |-> "null", ret |-> <<None, None>>, context |-> <<>>,
     loc |-> NoLoc, retriever_calls |-> 0, rejecter_calls |-> rc]

QueryResult(q, max_length, docs, fs, scores, throttle) ==
    IF EmptyQuestion(q) THEN NullReturn(0)
    ELSE IF is_reject(scores, throttle, DefaultK, FALSE).reject THEN NullReturn(1)
    ELSE
      LET chunks == ChunksOf(docs)
          files == FilesOf(docs, <<>>)
          asm == Assemble(docs, 1, <<>>, fs, max_length)
          raised == IF ~(Len(asm.context) <= max_length) THEN "AssertionError"
                    ELSE IF FirstFileMissing(files) THEN "IndexError"
                    ELSE "pair"
      IN  [outcome |-> raised,
           ret |-> IF raised = "pair"
                   THEN <<Some(JoinNL(chunks)), Some(asm.context)>>
                   ELSE <<None, None>>,
           context |-> asm.context,
           loc |-> asm.loc,
           retriever_calls |-> 1,
           rejecter_calls |-> 1]

query ==
    /\ qpc = "ready"
    /\ \E r \in {QueryResult(question, context_max_length, reranked, file_texts,
                             reject_scores, reject_throttle)} :
           /\ outcome' = r.outcome
           /\ ret' = r.ret
           /\ context' = r.context
           /\ loc' = r.loc
           /\ retriever_calls' = r.retriever_calls
           /\ rejecter_calls' = r.rejecter_calls
    /\ qpc' = "done"
    /\ UNCHANGED <<question, context_max_length, file_texts, reranked,
                   reject_scores, reject_throttle, gate_vars, split_vars,
                   store_vars>>

\* A call of is_reject on a store whose reject index is loaded (on a store
\* whose self.rejecter is still None the search raises AttributeError).
IsReject ==
    /\ gpc = "ready"
    /\ rejecter # "none"
    /\ LET r == is_reject(reject_scores, reject_throttle, k_arg, disable_arg)
       IN  /\ reject' = r.reject
           /\ reject_docs' = r.docs
    /\ rejecter_calls' = rejecter_calls + 1
    /\ gpc' = "done"
    /\ UNCHANGED <<k_arg, disable_arg, reject_scores, reject_throttle,
                   query_vars, split_vars, store_vars>>

(***************************************************************************)
(* FeatureStore.split_md.  A text is modelled by [len, dotted]: its length  *)
(* and the number of its characters that are U+0130, the one character     *)
(* that str.lower() turns into two (every other character lowers to one).  *)
(* A section is [metadata, page_content, subdocs]: metadata gives the      *)
(* length of the title under 'Header 1'..'Header 3' (-1: the key is        *)
(* absent), page_content the section's text, and subdocs the pieces that   *)
(* md_splitter.create_documents makes of that text.                        *)
(***************************************************************************)
MinChunkLen == 10
ResplitLen == 1024
ChunkSize == 768

HeaderLen(metadata) ==
    (IF metadata.h1 >= 0 THEN metadata.h1 ELSE 0)
  + (IF metadata.h2 >= 0 THEN 1 + metadata.h2 ELSE 0)
  + (IF metadata.h3 >= 0 THEN 1 + metadata.h3 ELSE 0)

\* len(text.lower())
LowerLen(text) == text.len + text.dotted

\* '{} {}'.format(header, text.lower())
Formatted(header_len, text, resplit) ==
    [len |-> header_len + 1 + LowerLen(text), header_len |-> header_len,
     text_len |-> text.len, lowered_len |-> LowerLen(text),
     resplit |-> resplit]

KeepFragment(n) == n >= MinChunkLen

NeedsResplitAbove(n) == n > ResplitLen

NeedsResplit(n) == n >= ResplitLen

RECURSIVE SubdocChunks(_, _)
SubdocChunks(header_len, pieces) ==
    IF Len(pieces) = 0 THEN <<>>
    ELSE (IF KeepFragment(pieces[1].len)
          THEN <<Formatted(header_len, pieces[1], TRUE)>>
          ELSE <<>>)
         \o SubdocChunks(header_len, Tail(pieces))

RECURSIVE split_md(_)
split_md(sections) ==
    IF Len(sections) = 0 THEN <<>>
    ELSE LET doc == sections[1]
             header == HeaderLen(doc.metadata)
         IN  (IF NeedsResplit(doc.page_content.len)
              THEN SubdocChunks(header, doc.subdocs)
              ELSE IF KeepFragment(doc.page_content.len)
                   THEN <<Formatted(header, doc.page_content, FALSE)>>
                   ELSE <<>>)
             \o split_md(Tail(sections))

Overflows(chunks) == Cardinality({i \in DOMAIN chunks : chunks[i].len >= ResplitLen})

SplitMd ==
    /\ spc = "ready"
    /\ final' = split_md(md_docs)
    /\ overflow_logged' = Overflows(split_md(md_docs))
    /\ spc' = "done"
    /\ UNCHANGED <<md_docs, query_vars, gate_vars, store_vars, reject_scores,
                   reject_throttle, rejecter_calls>>

(***************************************************************************)
(* The configuration file.  pytoml.load gives the file's tables; the       *)
(* feature_store table holds the two model paths and reject_throttle, and  *)
(* `rest` stands for every other table of the file.                        *)
(***************************************************************************)
ConfigPaths == {"config.ini", "other.ini"}
DefaultConfigPath == "config.ini"

InitialConfig ==
    [p \in ConfigPaths |->
        [feature_store |->
            [embedding_model_path |-> <<"embedding", p>>,
             reranker_model_path |-> <<"reranker", p>>,
             reject_throttle |-> IF p = DefaultConfigPath THEN 1 ELSE 2],
         rest |-> <<"llm", p>>]]

\* FeatureStore.__init__: self.reject_throttle = config['reject_throttle']
ConstructedThrottle(files, path) == files[path].feature_store.reject_throttle

\* config = pytoml.load(f); config['feature_store']['reject_throttle'] =
\* optimal_threshold; pytoml.dump(config, f) on the file at `path`
RewriteThrottle(files, path, threshold) ==
    [files EXCEPT ![path] =
        [files[path] EXCEPT !.feature_store.reject_throttle = threshold]]

(***************************************************************************)
(* The work directory.  A directory is "absent", "empty" (made, nothing    *)
(* saved in it), or holds what a run saved: "old" (a run before this       *)
(* model's initialize) or "new" (this initialize).                         *)
(***************************************************************************)
\* if os.path.exists(markdown_dir): shutil.rmtree(markdown_dir)
\* os.makedirs(markdown_dir)
RemadeDir(dir) == "empty"

\* if not os.path.exists(feature_dir): os.makedirs(feature_dir)
EnsuredDir(dir) == IF dir = "absent" THEN "empty" ELSE dir

\* vs.save_local(feature_dir)
SavedDir(dir) == "new"

\* FeatureStore.load_feature: the outcome and the two indexes held afterwards.
LoadFeature(resp_dir, reject_dir, old_rejecter, old_retriever) ==
    IF resp_dir = "absent" \/ reject_dir = "absent"
    THEN [outcome |-> "NotExist", rejecter |-> old_rejecter,
          retriever |-> old_retriever]
    ELSE IF reject_dir = "empty"
    THEN [outcome |-> "LoadError", rejecter |-> old_rejecter,
          retriever |-> old_retriever]
    ELSE IF resp_dir = "empty"
    THEN [outcome |-> "LoadError", rejecter |-> reject_dir,
          retriever |-> old_retriever]
    ELSE [outcome |-> "ok", rejecter |-> reject_dir, retriever |-> resp_dir]

(***************************************************************************)
(* numpy float64 (IEEE 754 binary64, round to nearest, ties to even), for  *)
(* the values that occur here: zero and positive normal numbers.  A value  *)
(* is [exp, hi, lo] and stands for (hi * 2^26 + lo) * 2^(exp - 52), with   *)
(* 2^26 <= hi < 2^27 and 0 <= lo < 2^26 (a 53-bit significand in two       *)
(* limbs); zero is [exp |-> -1075, hi |-> 0, lo |-> 0].                    *)
(***************************************************************************)
Limb == 2^26
Digit == 2^13

Float64Zero == [exp |-> -1075, hi |-> 0, lo |-> 0]

\* The significand after adding one unit in the last place.
Float64Next(x) ==
    IF x.lo + 1 < Limb THEN [x EXCEPT !.lo = @ + 1]
    ELSE IF x.hi + 1 < 2 * Limb THEN [x EXCEPT !.hi = @ + 1, !.lo = 0]
    ELSE [exp |-> x.exp + 1, hi |-> Limb, lo |-> 0]

\* Round to nearest, ties to even: guard is the first dropped bit, sticky
\* tells whether any later dropped bit is set.
Float64Round(x, guard, sticky) ==
    IF guard = 1 /\ (sticky \/ x.lo % 2 = 1) THEN Float64Next(x) ELSE x

\* t * 2^k in [q, 2q), with the exponent -k
RECURSIVE Float64Scale(_, _, _)
Float64Scale(t, q, e) ==
    IF t >= q THEN [t |-> t, exp |-> e] ELSE Float64Scale(2 * t, q, e - 1)

\* float(p) / float(q) for integers 0 <= p <= q, 1 <= q < 2^17: the
\* quotient's first 53 bits by long division, 13 bits at a time, then
\* rounded on the remainder.
Float64Div(p, q) ==
    IF p = 0 THEN Float64Zero
    ELSE
      LET n == Float64Scale(p, q, 0)
          r0 == n.t - q
          d1 == (r0 * Digit) \div q
          r1 == (r0 * Digit) % q
          d2 == (r1 * Digit) \div q
          r2 == (r1 * Digit) % q
          d3 == (r2 * Digit) \div q
          r3 == (r2 * Digit) % q
          d4 == (r3 * Digit) \div q
          r4 == (r3 * Digit) % q
          guard == (2 * r4) \div q
          sticky == (2 * r4) % q # 0
      IN  Float64Round([exp |-> n.exp, hi |-> Limb + d1 * Digit + d2,
                        lo |-> d3 * Digit + d4], guard, sticky)

\* The significand (h, l) shifted right by d bits, with the guard and
\* sticky bits of what was shifted out.
Float64ShiftRight(h, l, d) ==
    IF d = 0 THEN [hi |-> h, lo |-> l, guard |-> 0, sticky |-> FALSE]
    ELSE IF d <= 26
    THEN [hi |-> h \div 2^d,
          lo |-> (h % 2^d) * 2^(26 - d) + l \div 2^d,
          guard |-> (l \div 2^(d - 1)) % 2,
          sticky |-> l % 2^(d - 1) # 0]
    ELSE IF d <= 53
    THEN [hi |-> 0,
          lo |-> h \div 2^(d - 26),
          guard |-> (h \div 2^(d - 27)) % 2,
          sticky |-> (h % 2^(d - 27) # 0) \/ l # 0]
    ELSE [hi |-> 0, lo |-> 0, guard |-> 0, sticky |-> TRUE]

Float64Less(x, y) ==
    \/ x.exp < y.exp
    \/ x.exp = y.exp /\ x.hi < y.hi
    \/ x.exp = y.exp /\ x.hi = y.hi /\ x.lo < y.lo

\* x + y
Float64Add(x, y) ==
    IF x = Float64Zero THEN y
    ELSE IF y = Float64Zero THEN x
    ELSE
      LET a == IF x.exp >= y.exp THEN x ELSE y
          b == IF x.exp >= y.exp THEN y ELSE x
          s == Float64ShiftRight(b.hi, b.lo, a.exp - b.exp)
          lo_sum == a.lo + s.lo
          hi_sum == a.hi + s.hi + lo_sum \div Limb
          lo == lo_sum % Limb
      IN  IF hi_sum < 2 * Limb
          THEN Float64Round([exp |-> a.exp, hi |-> hi_sum, lo |-> lo],
                            s.guard, s.sticky)
          ELSE Float64Round([exp |-> a.exp + 1, hi |-> hi_sum \div 2,
                             lo |-> (hi_sum % 2) * (Limb \div 2) + lo \div 2],
                            lo % 2, s.guard = 1 \/ s.sticky)

(***************************************************************************)
(* sklearn.metrics.precision_recall_curve(labels, predictions): one point  *)
(* per distinct prediction v, in increasing order of v, with the precision *)
(* and recall of "score >= v", then the point (precision 1, recall 0).     *)
(* Precisions and recalls are float64 quotients of counts.  Releases of    *)
(* the library that drop the points below the first one of full recall     *)
(* drop only points of smaller precision + recall, so the threshold that   *)
(* initialize selects is the same.                                         *)
(***************************************************************************)
RECURSIVE Ascending(_)
Ascending(values) ==
    IF values = {} THEN <<>>
    ELSE LET least == CHOOSE v \in values : \A w \in values : v <= w
         IN  <<least>> \o Ascending(values \ {least})

Tps(labels, predictions, v) ==
    Cardinality({i \in DOMAIN predictions : labels[i] = 1 /\ predictions[i] >= v})
Fps(labels, predictions, v) ==
    Cardinality({i \in DOMAIN predictions : labels[i] = 0 /\ predictions[i] >= v})
Positives(labels) == Cardinality({i \in DOMAIN labels : labels[i] = 1})

precision_recall_curve(labels, predictions) ==
    LET thresholds == Ascending({predictions[i] : i \in DOMAIN predictions})
        P == Positives(labels)
        tps == [i \in DOMAIN thresholds |-> Tps(labels, predictions, thresholds[i])]
        fps == [i \in DOMAIN thresholds |-> Fps(labels, predictions, thresholds[i])]
    IN  [precision |->
             [i \in DOMAIN thresholds |-> Float64Div(tps[i], tps[i] + fps[i])]
             \o <<Float64Div(1, 1)>>,
         recall |->
             [i \in DOMAIN thresholds |->
                 IF P = 0 THEN Float64Div(1, 1) ELSE Float64Div(tps[i], P)]
             \o <<Float64Zero>>,
         thresholds |-> thresholds]

\* np.argmax: the first index of a greatest element (1-based here)
ArgMax(values) ==
    CHOOSE i \in DOMAIN values :
        /\ \A j \in DOMAIN values : ~Float64Less(values[i], values[j])
        /\ \A j \in 1..(i - 1) : Float64Less(values[j], values[i])

RecallOnly(precision, recall) ==
    [i \in 1..(Len(precision) - 1) |-> recall[i]]

\* sum_precision_recall = precision[:-1] + recall[:-1]
SumPrecisionRecall(precision, recall) ==
    [i \in 1..(Len(precision) - 1) |-> Float64Add(precision[i], recall[i])]

\* labels = [1 for good] + [0 for bad]
Labels(good, bad) ==
    [i \in 1..(Len(good) + Len(bad)) |-> IF i <= Len(good) THEN 1 ELSE 0]

\* The loop over questions: score = docs[0][1] of the unthrottled is_reject.
RECURSIVE Predictions(_)
Predictions(question_scores) ==
    IF Len(question_scores) = 0 THEN <<>>
    ELSE <<is_reject(<<question_scores[1]>>, -1, DefaultK, TRUE).docs[1].score>>
             \o Predictions(Tail(question_scores))

OptimalThreshold(good, bad) ==
    LET predictions == Predictions(good \o bad)
        curve == precision_recall_curve(Labels(good, bad), predictions)
        index_max == ArgMax(SumPrecisionRecall(curve.precision, curve.recall))
    IN  curve.thresholds[index_max]

(***************************************************************************)
(* FeatureStore.initialize                                                 *)
(***************************************************************************)
EmptyIfBoth(good, bad) == Len(good) = 0 /\ Len(bad) = 0

\* len(good_questions) == 0 or len(bad_questions) == 0
InsufficientLabels(good, bad) == Len(good) = 0 \/ Len(bad) = 0

ScoringThrottleKept(throttle) == throttle

\* self.reject_throttle = -1, at the head of every iteration of the loop over
\* the questions; nothing assigns self.reject_throttle after the loop.
ScoringThrottle(throttle) == -1

\* The step of the rebuild that raises: the reject-index build, the
\* response-index build, the search for markdown files, or none.
Faults == {"build_reject", "build_response", "find_markdown", "none"}

\* What initialize leaves behind, step by step; `flt` is the step the
\* environment makes fail (no markdown file found, or a failing index build).
InitializeResult(cp, good, bad, flt) ==
    LET start ==
            [preprocess_dir |-> preprocess_dir, db_response |-> db_response,
             db_reject |-> db_reject, rejecter |-> rejecter,
             retriever |-> retriever, reject_throttle |-> reject_throttle,
             rejecter_calls |-> rejecter_calls, config_files |-> config_files,
             optimal_threshold |-> -1, outcome |-> "ok"]
        \* preprocess
        s1 == [start EXCEPT !.preprocess_dir = RemadeDir(@)]
        s1done == [s1 EXCEPT !.preprocess_dir = "new"]
        \* ingress_response
        s2 == [s1done EXCEPT !.db_response = EnsuredDir(@)]
        s2done == [s2 EXCEPT !.db_response = SavedDir(@)]
        \* ingress_reject
        s3 == [s2done EXCEPT !.db_reject = EnsuredDir(@)]
        s3done == [s3 EXCEPT !.db_reject = SavedDir(@)]
        \* load_feature
        loaded == LoadFeature(s3done.db_response, s3done.db_reject,
                              s3done.rejecter, s3done.retriever)
        s4 == [s3done EXCEPT !.rejecter = loaded.rejecter,
                             !.retriever = loaded.retriever]
        \* the loop over the questions
        s5 == [s4 EXCEPT !.reject_throttle = ScoringThrottle(@),
                         !.rejecter_calls = @ + Len(good) + Len(bad)]
        \* the curve, the argmax and the rewrite of the configuration
        best == OptimalThreshold(good, bad)
        s6 == [s5 EXCEPT !.optimal_threshold = best,
                         !.config_files = RewriteThrottle(@, cp, best)]
    IN  IF flt = "find_markdown" THEN [s1 EXCEPT !.outcome = "NoMarkdown"]
        ELSE IF flt = "build_response" THEN [s2 EXCEPT !.outcome = "BuildError"]
        ELSE IF flt = "build_reject" THEN [s3 EXCEPT !.outcome = "BuildError"]
        ELSE IF InsufficientLabels(good, bad)
             THEN [s3done EXCEPT !.outcome = "EmptyLabels"]
        ELSE IF loaded.outcome # "ok" THEN [s4 EXCEPT !.outcome = loaded.outcome]
        ELSE s6

\* Scores of labelled questions lie on the even points of the score axis, so
\* that between two different scores there is room for a threshold.
ScoreGrid == {v + v : v \in 0..MaxScore}
QuestionScores == UNION {[1..n -> ScoreGrid] : n \in 0..MaxQuestions}

initialize ==
    /\ ipc = "constructed"
    /\ \E cp \in ConfigPaths, good \in QuestionScores, bad \in QuestionScores,
          flt \in Faults :
          \E r \in {InitializeResult(cp, good, bad, flt)} :
              /\ config_path_arg' = cp
              /\ good_scores' = good
              /\ bad_scores' = bad
              /\ fault' = flt
              /\ preprocess_dir' = r.preprocess_dir
              /\ db_response' = r.db_response
              /\ db_reject' = r.db_reject
              /\ rejecter' = r.rejecter
              /\ retriever' = r.retriever
              /\ reject_throttle' = r.reject_throttle
              /\ rejecter_calls' = r.rejecter_calls
              /\ config_files' = r.config_files
              /\ optimal_threshold' = r.optimal_threshold
              /\ init_outcome' = r.outcome
    /\ ipc' = "initialized"
    /\ UNCHANGED <<config0, self_config_path, load_outcome, reject_scores,
                   query_vars, gate_vars, split_vars>>

\* FeatureStore(config_path=path): a new instance, as test_reject and
\* test_query make after initialize has ended.
construct ==
    /\ ipc = "initialized"
    /\ \E path \in ConfigPaths :
          /\ self_config_path' = path
          /\ reject_throttle' = ConstructedThrottle(config_files, path)
    /\ rejecter' = "none"
    /\ retriever' = "none"
    /\ ipc' = "restarted"
    /\ UNCHANGED <<config_files, config0, disk_vars, config_path_arg,
                   good_scores, bad_scores, fault, init_outcome,
                   optimal_threshold, load_outcome, reject_scores,
                   rejecter_calls, query_vars, gate_vars, split_vars>>

\* load_feature(work_dir) on the new instance.
load_feature ==
    /\ ipc = "restarted"
    /\ load_outcome = "none"
    /\ LET r == LoadFeature(db_response, db_reject, rejecter, retriever)
       IN  /\ load_outcome' = r.outcome
           /\ rejecter' = r.rejecter
           /\ retriever' = r.retriever
    /\ UNCHANGED <<config_files, config0, self_config_path, disk_vars,
                   config_path_arg, good_scores, bad_scores, fault, ipc,
                   init_outcome, optimal_threshold, reject_scores,
                   reject_throttle, rejecter_calls, query_vars, gate_vars,
                   split_vars>>

(***************************************************************************)
(* The query specification: one call of query on a loaded store.           *)
(* InitAssemble: an accepted question with every budget, every content of  *)
(* the two source files and every reranked list of up to two hits with     *)
(* chunks of one or two characters (the reranker yields up to three hits;  *)
(* a third hit runs the same loop body).                                   *)
(* InitGate: every question and every reject-index score, over a smaller   *)
(* family of files and hits.                                               *)
(***************************************************************************)
Sources == {"f1.md", "f2.md"}
Questions == {None, Some(<<>>), Some(<<"q">>)}
Hits(chunk_lens) ==
    [page_content : UNION {StrsOfLen(n) : n \in chunk_lens}, source : Sources]
ScoreLists(lens) == UNION {[1..n -> 0..MaxScore] : n \in lens}

InitQueryLocals ==
    /\ qpc = "ready"
    /\ outcome = "none"
    /\ ret = <<None, None>>
    /\ context = <<>>
    /\ loc = NoLoc
    /\ retriever_calls = 0
    /\ rejecter_calls = 0

InitAssemble ==
    /\ question = Some(<<"q">>)
    /\ context_max_length \in 0..MaxCtx
    /\ file_texts \in [Sources -> StrsUpTo(MaxFileLen)]
    /\ \E n \in {0, 1, 2} : reranked \in [1..n -> Hits({1, 2})]
    /\ reject_scores = <<MaxScore>>
    /\ reject_throttle = 1

InitGate ==
    /\ question \in Questions
    /\ context_max_length \in 0..MaxCtx
    /\ file_texts \in [Sources -> StrsUpTo(1)]
    /\ \E n \in {0, 1} : reranked \in [1..n -> Hits({1})]
    /\ reject_scores \in ScoreLists({1, 2})
    /\ reject_throttle \in 0..MaxScore

\* No call of is_reject on its own.
GateIdle ==
    /\ k_arg = DefaultK
    /\ disable_arg = FALSE
    /\ gpc = "idle"
    /\ reject = FALSE
    /\ reject_docs = <<>>

\* No call of split_md.
SplitIdle ==
    /\ md_docs = <<>>
    /\ spc = "idle"
    /\ final = <<>>
    /\ overflow_logged = 0

\* A store constructed from the default configuration with both indexes of
\* an earlier rebuild loaded; no initialize.
StoreLoaded ==
    /\ config_files = InitialConfig
    /\ config0 = InitialConfig
    /\ self_config_path = DefaultConfigPath
    /\ preprocess_dir = "old"
    /\ db_response = "old"
    /\ db_reject = "old"
    /\ rejecter = "old"
    /\ retriever = "old"
    /\ config_path_arg = DefaultConfigPath
    /\ good_scores = <<>>
    /\ bad_scores = <<>>
    /\ fault = "none"
    /\ ipc = "idle"
    /\ init_outcome = "none"
    /\ optimal_threshold = -1
    /\ load_outcome = "none"

InitQuery ==
    /\ InitAssemble \/ InitGate
    /\ InitQueryLocals
    /\ GateIdle
    /\ SplitIdle
    /\ StoreLoaded

NextQuery == query

SpecQuery == InitQuery /\ [][NextQuery]_vars

(***************************************************************************)
(* Claims about query.                                                     *)
(***************************************************************************)
Returned == qpc = "done" /\ outcome \in {"null", "pair"}
Assembled == qpc = "done" /\ retriever_calls = 1

\* The file of the top-ranked hit is longer than the budget.
TopFileOverBudget ==
    /\ Len(reranked) >= 1
    /\ Len(file_texts[reranked[1].source]) > context_max_length

TopChunk == reranked[1].page_content
TopFile == file_texts[reranked[1].source]

\* C1: when the assembly loop of query ends, len(context) <= context_max_length
\* (the assertion after the loop never fails).
C1_ContextWithinBudget ==
    Assembled => Len(context) <= context_max_length

\* C2 as stated: whenever the budget is smaller than the top hit's file, the
\* returned context has exactly the budget's length and contains the whole
\* chunk whenever the chunk occurs verbatim in that file.
C2_ExactLengthAndWholeChunk ==
    (Returned /\ outcome = "pair" /\ TopFileOverBudget) =>
        /\ Len(ret[2].str) = context_max_length
        /\ (PyIn(TopChunk, TopFile) => PyIn(TopChunk, ret[2].str))

\* C2 amended: whenever the budget is smaller than the top hit's file, the
\* returned context has exactly the budget's length, and it contains the whole
\* chunk whenever the chunk occurs verbatim in that file and is no longer than
\* the budget.
C2_ExactLengthAndChunkIfItFits ==
    (Returned /\ outcome = "pair" /\ TopFileOverBudget) =>
        /\ Len(ret[2].str) = context_max_length
        /\ (PyIn(TopChunk, TopFile) /\ Len(TopChunk) <= context_max_length
               => PyIn(TopChunk, ret[2].str))

\* C2 witness: a context returned from a window around a chunk that was found
\* after the start of a file longer than the budget.
C2_Witness ==
    /\ Returned /\ outcome = "pair" /\ TopFileOverBudget
    /\ loc.branch = "found" /\ loc.chunk_index >= 1
    /\ Len(TopChunk) <= context_max_length
    /\ Len(ret[2].str) = context_max_length
    /\ PyIn(TopChunk, ret[2].str)

QuestionIsEmpty == question = None \/ question.str = <<>>
GateRejects == \A i \in DOMAIN reject_scores : reject_scores[i] < reject_throttle

\* C3: every return of query is (None, None) or two strings; it is
\* (None, None) exactly when the question is None/empty or the rejection gate
\* rejects it, and then neither the response index nor the reranker was
\* consulted.
C3_NullTogetherAndOnlyWhenGated ==
    /\ Returned =>
          /\ ret[1].some <=> ret[2].some
          /\ (~ret[1].some) <=> (QuestionIsEmpty \/ GateRejects)
    /\ (qpc = "done" /\ (QuestionIsEmpty \/ GateRejects)) =>
          /\ outcome = "null"
          /\ retriever_calls = 0

\* C3 witness: a non-empty question the gate rejected, answered (None, None)
\* without a call of the retriever.
C3_Witness ==
    /\ Returned /\ ~QuestionIsEmpty /\ GateRejects
    /\ ret = <<None, None>>
    /\ rejecter_calls = 1 /\ retriever_calls = 0

\* The truncation branch of C10: chunk found verbatim, remaining budget
\* smaller than the chunk.
FoundWithShortBudget ==
    /\ Assembled
    /\ loc.branch = "found"
    /\ loc.add_len < Len(loc.chunk)

\* C10 as stated: in that branch the computed start index is negative and is
\* clamped to zero, so the appended window is file_text[0:remaining].
C10_ClampedToZero ==
    FoundWithShortBudget =>
        /\ loc.chunk_index - (loc.add_len - Len(loc.chunk)) < 0
        /\ loc.start_index = 0
        /\ loc.added = PySlice(loc.file_text, 0, loc.add_len)

\* C10 amended: in that branch the computed start index is
\* idx + (chunkLen - remaining), which is positive, so the clamp changes
\* nothing and the appended window is the last `remaining` characters of the
\* chunk's first occurrence, file_text[idx + chunkLen - remaining : idx + chunkLen].
C10_TailOfChunk ==
    FoundWithShortBudget =>
        /\ loc.chunk_index - (loc.add_len - Len(loc.chunk)) > 0
        /\ loc.start_index = loc.chunk_index + (Len(loc.chunk) - loc.add_len)
        /\ loc.added = PySlice(loc.chunk, Len(loc.chunk) - loc.add_len, Len(loc.chunk))
        /\ loc.added = PySlice(loc.file_text, loc.start_index,
                               loc.chunk_index + Len(loc.chunk))

\* C10 witness: the branch taken on a second hit, with a window that differs
\* from the head of the file.
C10_Witness ==
    /\ FoundWithShortBudget
    /\ loc.before # <<>>
    /\ loc.start_index > 0
    /\ loc.added # PySlice(loc.file_text, 0, loc.add_len)

\* C12: whenever query returns two strings the reranked hit list was not
\* empty; for a question that passes the rejection gate and gets no hit from
\* the response index and the reranker, query returns nothing (neither
\* (None, None) nor two empty strings): after the retriever was consulted and
\* the empty context passed the length assertion, reading files[0] raises
\* IndexError.
C12_NoHitsRaiseIndexError ==
    /\ (qpc = "done" /\ outcome = "pair") => reranked # <<>>
    /\ (qpc = "done" /\ ~QuestionIsEmpty /\ ~GateRejects /\ reranked = <<>>) =>
          /\ ~Returned
          /\ outcome = "IndexError"
          /\ retriever_calls = 1
          /\ context = <<>>

\* C12 witness: a question the gate accepted, for which the retriever was
\* consulted and yielded nothing, ended in IndexError.
C12_Witness ==
    /\ qpc = "done"
    /\ ~QuestionIsEmpty /\ ~GateRejects
    /\ rejecter_calls = 1 /\ retriever_calls = 1
    /\ reranked = <<>>
    /\ outcome = "IndexError"

(***************************************************************************)
(* The gate specification: one call of is_reject, for every content of the *)
(* reject index (the scores of its entries for the question), every        *)
(* threshold, throttled or not, with k = 20 (the default) or smaller.      *)
(***************************************************************************)
\* No call of query.
QueryIdle ==
    /\ question = Some(<<"q">>)
    /\ context_max_length = 0
    /\ file_texts = [p \in Sources |-> <<>>]
    /\ reranked = <<>>
    /\ qpc = "idle"
    /\ outcome = "none"
    /\ ret = <<None, None>>
    /\ context = <<>>
    /\ loc = NoLoc
    /\ retriever_calls = 0

InitIsReject ==
    /\ QueryIdle
    /\ SplitIdle
    /\ StoreLoaded
    /\ reject_scores \in ScoreLists(1..MaxEntries)
    /\ reject_throttle \in -1..(MaxScore + 1)
    /\ k_arg \in {1, 2, DefaultK}
    /\ disable_arg \in BOOLEAN
    /\ gpc = "ready"
    /\ reject = FALSE
    /\ reject_docs = <<>>
    /\ rejecter_calls = 0

NextGate == IsReject

SpecGate == InitIsReject /\ [][NextGate]_vars

BestScore == CHOOSE v \in {reject_scores[i] : i \in DOMAIN reject_scores} :
                 \A i \in DOMAIN reject_scores : reject_scores[i] <= v

\* C4: with throttling enabled, is_reject rejects if and only if the best
\* score of the reject index for the question is strictly below the threshold
\* (equivalently, the filtered top-k result is empty); a best hit scoring
\* exactly the threshold is accepted.
C4_RejectIffBestBelowThreshold ==
    (gpc = "done" /\ ~disable_arg) =>
        /\ reject <=> (BestScore < reject_throttle)
        /\ reject <=> (reject_docs = <<>>)
        /\ (BestScore = reject_throttle) => ~reject
        /\ \A i \in DOMAIN reject_docs : reject_docs[i].score >= reject_throttle

\* C4 witness: a throttled call on an index with several entries whose best
\* one scores exactly the threshold and is the only one to pass.
C4_Witness ==
    /\ gpc = "done" /\ ~disable_arg
    /\ Len(reject_scores) >= 2
    /\ BestScore = reject_throttle
    /\ Len(reject_docs) = 1
    /\ ~reject

(***************************************************************************)
(* The chunker specification: one call of split_md on a document of up to  *)
(* two header sections.  Section texts have lengths around the two         *)
(* thresholds of split_md; the pieces of a re-split section are at most    *)
(* chunk_size long.  A section's text has no U+0130 or consists of U+0130  *)
(* only, and so do its pieces, which are parts of it.                      *)
(***************************************************************************)
TitleLens == {-1, MaxHeaderLen}
ContentLens == {MinChunkLen - 1, MinChunkLen, ChunkSize, ResplitLen - 1,
                ResplitLen, ResplitLen + ChunkSize}
PieceLens == {MinChunkLen - 1, MinChunkLen, ChunkSize}
PieceLists == UNION {[1..n -> PieceLens] : n \in 1..MaxPieces}
Metadatas == [h1 : TitleLens, h2 : TitleLens, h3 : TitleLens]
Text(n, all_dotted) == [len |-> n, dotted |-> IF all_dotted THEN n ELSE 0]
Sections ==
    {[metadata |-> m, page_content |-> Text(c, d), subdocs |-> <<>>] :
        m \in Metadatas, c \in {x \in ContentLens : x < ResplitLen},
        d \in BOOLEAN}
    \cup
    {[metadata |-> m, page_content |-> Text(c, d),
      subdocs |-> [i \in DOMAIN ps |-> Text(ps[i], d)]] :
        m \in Metadatas, c \in {x \in ContentLens : x >= ResplitLen},
        ps \in PieceLists, d \in BOOLEAN}

\* The store as constructed and loaded, with no search made.
StoreQueryIdle ==
    /\ reject_scores = <<0>>
    /\ reject_throttle = ConstructedThrottle(config_files, self_config_path)
    /\ rejecter_calls = 0

InitSplit ==
    /\ QueryIdle
    /\ GateIdle
    /\ StoreLoaded
    /\ StoreQueryIdle
    /\ \E n \in {0, 1, 2} : md_docs \in [1..n -> Sections]
    /\ spc = "ready"
    /\ final = <<>>
    /\ overflow_logged = 0

NextSplit == SplitMd

SpecSplit == InitSplit /\ [][NextSplit]_vars

\* C9 as stated: every chunk split_md returns has a content (header prefix
\* joined to the text) of length L with 10 <= L < 1024.
C9_ContentLengthBounded ==
    spc = "done" =>
        \A i \in DOMAIN final : 10 <= final[i].len /\ final[i].len < 1024

\* C9 amended: every chunk split_md returns is the header prefix, one space
\* and the lower-cased text of a section or sub-piece whose own length T
\* satisfies 10 <= T < 1024; the lower-cased text is between T and 2T long,
\* so the content has length L >= 11, which can be 1024 or more (each such
\* chunk is logged); a section of length >= 1024 yields only sub-pieces of
\* the re-split, and no text shorter than 10 yields a chunk.
C9_TextLengthBounded ==
    spc = "done" =>
        /\ \A i \in DOMAIN final :
              /\ 10 <= final[i].text_len /\ final[i].text_len < 1024
              /\ final[i].text_len <= final[i].lowered_len
              /\ final[i].lowered_len <= 2 * final[i].text_len
              /\ final[i].len = final[i].header_len + 1 + final[i].lowered_len
              /\ final[i].len >= 11
        /\ \A j \in DOMAIN md_docs :
              (md_docs[j].page_content.len >= 1024) =>
                  \A i \in DOMAIN final :
                      final[i].text_len # md_docs[j].page_content.len
        /\ Len(final) =
              Cardinality({j \in DOMAIN md_docs :
                              /\ md_docs[j].page_content.len >= 10
                              /\ md_docs[j].page_content.len < 1024})
            + Cardinality({<<j, n>> \in (DOMAIN md_docs) \X (1..MaxPieces) :
                              /\ md_docs[j].page_content.len >= 1024
                              /\ n \in DOMAIN md_docs[j].subdocs
                              /\ md_docs[j].subdocs[n].len >= 10})
        /\ overflow_logged =
              Cardinality({i \in DOMAIN final : final[i].len >= 1024})

\* C9 witness: a call that re-split one section, dropped a short fragment of
\* it, and returned a chunk whose content is 1024 long or longer and a chunk
\* whose text grew when lower-cased.
C9_Witness ==
    /\ spc = "done"
    /\ \E i \in DOMAIN final : final[i].lowered_len > final[i].text_len
    /\ \E i \in DOMAIN final : final[i].resplit
    /\ \E j \in DOMAIN md_docs :
          /\ md_docs[j].page_content.len >= 1024
          /\ \E n \in DOMAIN md_docs[j].subdocs : md_docs[j].subdocs[n].len < 10
    /\ \E i \in DOMAIN final : final[i].len >= 1024
    /\ overflow_logged >= 1

(***************************************************************************)
(* The store specification: a store constructed from one of the            *)
(* configuration files, on a work directory that is fresh or holds the     *)
(* indexes of an earlier rebuild; initialize is called once, with any      *)
(* labelled questions and any failing step; then a new store is            *)
(* constructed and load_feature is called on it.                           *)
(***************************************************************************)
InitStore ==
    /\ QueryIdle
    /\ GateIdle
    /\ SplitIdle
    /\ config_files = InitialConfig
    /\ config0 = InitialConfig
    /\ self_config_path \in ConfigPaths
    /\ \E d \in {"absent", "old"} :
          /\ preprocess_dir = d
          /\ db_response = d
          /\ db_reject = d
    /\ rejecter = "none"
    /\ retriever = "none"
    /\ reject_throttle = ConstructedThrottle(config_files, self_config_path)
    /\ reject_scores = <<0>>
    /\ rejecter_calls = 0
    /\ config_path_arg = DefaultConfigPath
    /\ good_scores = <<>>
    /\ bad_scores = <<>>
    /\ fault = "none"
    /\ ipc = "constructed"
    /\ init_outcome = "none"
    /\ optimal_threshold = -1
    /\ load_outcome = "none"

NextStore == initialize \/ construct \/ load_feature

SpecStore == InitStore /\ [][NextStore]_vars

Range(seq) == {seq[i] : i \in DOMAIN seq}

\* Every good score is strictly greater than every bad score.
Separable ==
    /\ good_scores # <<>>
    /\ bad_scores # <<>>
    /\ \A g \in Range(good_scores), b \in Range(bad_scores) : g > b

LowestGood == CHOOSE g \in Range(good_scores) : \A h \in Range(good_scores) : g <= h
HighestBad == CHOOSE b \in Range(bad_scores) : \A c \in Range(bad_scores) : c <= b

\* Classifying by score >= optimal_threshold accepts every good question and
\* no bad one.
PrecisionAndRecallOne ==
    /\ \A g \in Range(good_scores) : g >= optimal_threshold
    /\ \A b \in Range(bad_scores) : ~(b >= optimal_threshold)

\* C5 as stated: for separable good and bad scores the calibrated threshold
\* lies strictly between the highest bad score and the lowest good score, and
\* classifying by score >= threshold gives precision = recall = 1.
C5_ThresholdStrictlyBetween ==
    (init_outcome = "ok" /\ Separable) =>
        /\ HighestBad < optimal_threshold
        /\ optimal_threshold < LowestGood
        /\ PrecisionAndRecallOne

\* C5 amended: for separable good and bad scores the calibrated threshold is
\* the lowest good score itself (above the highest bad score, not below the
\* lowest good one), and classifying by score >= threshold gives
\* precision = recall = 1.
C5_ThresholdIsLowestGood ==
    (init_outcome = "ok" /\ Separable) =>
        /\ optimal_threshold = LowestGood
        /\ HighestBad < optimal_threshold
        /\ PrecisionAndRecallOne

\* C5 witness: a calibration over two different good scores and two bad
\* scores, with room between the groups, that chose the lowest good score.
C5_Witness ==
    /\ init_outcome = "ok" /\ Separable
    /\ Cardinality(Range(good_scores)) >= 2
    /\ Len(bad_scores) >= 2
    /\ LowestGood - HighestBad >= 2
    /\ optimal_threshold = LowestGood

\* C6: after a successful calibration the configuration file the store was
\* constructed from differs from its prior content only in reject_throttle,
\* which is the optimal threshold, and no other configuration file is written.
C6_OwnConfigRewrittenOnly ==
    (ipc = "initialized" /\ init_outcome = "ok") =>
        /\ config_files[self_config_path] =
              [config0[self_config_path] EXCEPT
                  !.feature_store.reject_throttle = optimal_threshold]
        /\ \A p \in ConfigPaths \ {self_config_path} :
              config_files[p] = config0[p]

\* C7: after a rebuild that failed, load_feature cannot succeed on an index
\* pair that is stale or mixes the entries of different runs.
C7_NoStaleOrMixedPairAfterFailure ==
    (init_outcome \notin {"none", "ok"} /\ load_outcome = "ok") =>
        /\ rejecter = "new"
        /\ retriever = "new"

\* C8: with an empty good or bad question set, initialize fails with an error,
\* issues no score query to the reject index, and leaves the persisted
\* reject_throttle (and the configuration files) unchanged.
C8_EmptyLabelsFailBeforeScoring ==
    (init_outcome # "none" /\ (good_scores = <<>> \/ bad_scores = <<>>)) =>
        /\ init_outcome # "ok"
        /\ rejecter_calls = 0
        /\ optimal_threshold = -1
        /\ \A p \in ConfigPaths :
              config_files[p].feature_store.reject_throttle
                  = config0[p].feature_store.reject_throttle
        /\ config_files = config0

\* C8 witness: initialize rebuilt both indexes and then failed for want of
\* good questions, although bad ones were given.
C8_Witness ==
    /\ init_outcome = "EmptyLabels"
    /\ good_scores = <<>> /\ bad_scores # <<>>
    /\ db_response = "new" /\ db_reject = "new"
    /\ rejecter_calls = 0
    /\ config_files = config0

(***************************************************************************)
(* The calibration specification: the store specification with one         *)
(* throttled call of is_reject, made on whichever instance holds a loaded  *)
(* reject index: the instance that ran initialize, or the instance         *)
(* constructed after it once load_feature has succeeded on it.             *)
(* reject_scores are the scores of the asked question against the two      *)
(* entries of the rebuilt reject index, on the axis of the calibration     *)
(* scores: calibrated thresholds fall below, between and above them.       *)
(***************************************************************************)
LaterScores == {<<0, 2>>}

InitCalibrate ==
    /\ QueryIdle
    /\ SplitIdle
    /\ config_files = InitialConfig
    /\ config0 = InitialConfig
    /\ self_config_path \in ConfigPaths
    /\ preprocess_dir = "old"
    /\ db_response = "old"
    /\ db_reject = "old"
    /\ rejecter = "none"
    /\ retriever = "none"
    /\ reject_throttle = ConstructedThrottle(config_files, self_config_path)
    /\ reject_scores \in LaterScores
    /\ rejecter_calls = 0
    /\ k_arg = DefaultK
    /\ disable_arg = FALSE
    /\ gpc = "ready"
    /\ reject = FALSE
    /\ reject_docs = <<>>
    /\ config_path_arg = DefaultConfigPath
    /\ good_scores = <<>>
    /\ bad_scores = <<>>
    /\ fault = "none"
    /\ ipc = "constructed"
    /\ init_outcome = "none"
    /\ optimal_threshold = -1
    /\ load_outcome = "none"

NextCalibrate == initialize \/ IsReject \/ construct \/ load_feature

SpecCalibrate == InitCalibrate /\ [][NextCalibrate]_vars

\* initialize has entered its loop over the questions: the rebuild did not
\* fail and neither question set is empty.
CalibrationStarted ==
    /\ ipc # "constructed"
    /\ fault = "none"
    /\ good_scores # <<>>
    /\ bad_scores # <<>>

\* The configuration file a new store was constructed from is the one that
\* initialize rewrote.
FromRewrittenConfig == self_config_path = config_path_arg

\* A step that is a call of is_reject.
IsRejectStep == gpc = "ready" /\ gpc' = "done"

\* C11: once initialize has started calibration, the in-memory
\* reject_throttle of that instance is -1 and is not the calibrated threshold;
\* a throttled is_reject on that instance filters with -1 (every entry found
\* passes, nothing is rejected); a store constructed afterwards holds the
\* calibrated threshold, and filters with it, when it was constructed from the
\* rewritten configuration file, and holds the untouched threshold of its own
\* file otherwise.
C11_SentinelKeptUntilReconstructed ==
    [][/\ (ipc' = "initialized" /\ CalibrationStarted') =>
             /\ reject_throttle' = -1
             /\ reject_throttle' # optimal_threshold'
       /\ (IsRejectStep /\ ipc = "initialized" /\ CalibrationStarted) =>
             /\ ~reject'
             /\ Len(reject_docs') = Len(reject_scores)
             /\ \A i \in DOMAIN reject_docs' : reject_docs'[i].score >= -1
       /\ (ipc' = "restarted" /\ CalibrationStarted') =>
             reject_throttle' =
                 IF FromRewrittenConfig'
                 THEN optimal_threshold'
                 ELSE config0'[self_config_path'].feature_store.reject_throttle
       /\ (IsRejectStep /\ ipc = "restarted" /\ CalibrationStarted
             /\ FromRewrittenConfig) =>
             /\ reject' <=> (BestScore < optimal_threshold)
             /\ \A i \in DOMAIN reject_docs' :
                   reject_docs'[i].score >= optimal_threshold
      ]_vars

\* C11 witness: after a successful calibration the same instance, asked with
\* throttling, accepted a question whose best score is below the calibrated
\* threshold.
C11_Witness ==
    /\ ipc = "initialized" /\ CalibrationStarted
    /\ init_outcome = "ok"
    /\ gpc = "done" /\ ~disable_arg
    /\ reject_throttle = -1
    /\ BestScore < optimal_threshold
    /\ ~reject
    /\ Len(reject_docs) = Len(reject_scores)

====
